---- MODULE Spec2Model ----
(***************************************************************************)
(* A model of pblstudio's webtoon handlers, entity (de)serialisation and   *)
(* document repository (src/pblstudio/routes.py).                          *)
(*                                                                         *)
(* Encoding of Python values:                                              *)
(*   - a dataclass instance is a record carrying its class in "cls";       *)
(*   - a dict is a function from key strings to values (no "cls" key);     *)
(*   - a list is a sequence;                                               *)
(*   - titles and sluglines are sequences of one-character strings, so     *)
(*     that create_slugline works character by character; authors and      *)
(*     page URLs are atomic strings, "" being the empty str;               *)
(*   - None is the record None where an object is expected and the         *)
(*     reserved string NoneStr where a str is expected (TLC cannot         *)
(*     compare a record with a string);                                    *)
(*   - str(uuid4()) is a natural number.                                   *)
(***************************************************************************)
EXTENDS Integers, Sequences, FiniteSets, TLC

VARIABLES
    collection,   \* db["webtoons"]: the stored documents, in insertion order
    submitted,    \* history: the form data of each stored document, by position
    request,      \* the request the sequential server handled last
    response,     \* what that request got back
    tasks,        \* the concurrent publish_webtoon coroutines
    w,            \* a Webtoon under (de)serialisation
    a_dict,       \* the mapping object handed to Webtoon.from_dict
    loaded,       \* the results of the from_dict calls on a_dict, in call order
    title_in,     \* the argument of create_slugline
    slug_out      \* its result

vars == <<collection, submitted, request, response, tasks, w, a_dict, loaded,
          title_in, slug_out>>

-----------------------------------------------------------------------------
(* Python values *)

None == [cls |-> "NoneType"]

NoneStr == "None"

TypeError == [cls |-> "TypeError"]

AttributeError == [cls |-> "AttributeError"]

DuplicateKeyError == [cls |-> "DuplicateKeyError"]

Min(a, b) == IF a <= b THEN a ELSE b

\* dict.get(key, default)
Get(d, key, default) == IF key \in DOMAIN d THEN d[key] ELSE default

\* the dict without one key (what is left of it after dict.pop(key, ...))
Without(d, key) == [k \in DOMAIN d \ {key} |-> d[k]]

-----------------------------------------------------------------------------
(* Entities: routes.py 15-49 *)

PageFields == {"_id", "webtoon_id", "page_number", "url"}

WebtoonFields == {"_id", "slugline", "title", "author", "pages"}

FieldsOf(cls) == IF cls = "Page" THEN PageFields ELSE WebtoonFields

\* cls(**kwargs) of a dataclass: the keywords must be exactly its fields
Construct(cls, kwargs) ==
    IF DOMAIN kwargs = FieldsOf(cls)
    THEN [k \in DOMAIN kwargs \cup {"cls"} |->
            IF k = "cls" THEN cls ELSE kwargs[k]]
    ELSE TypeError

Page(id, webtoon_id, page_number, url) ==
    Construct("Page", [_id |-> id, webtoon_id |-> webtoon_id,
                       page_number |-> page_number, url |-> url])

Webtoon(id, title, slugline, author, pages) ==
    Construct("Webtoon", [_id |-> id, slugline |-> slugline, title |-> title,
                          author |-> author, pages |-> pages])

\* Entity.to_dict: copy(self.__dict__)
Entity_to_dict(self) == [k \in DOMAIN self \ {"cls"} |-> self[k]]

\* Entity.from_dict: cls(**a_dict)
Entity_from_dict(cls, d) == Construct(cls, d)

\* Webtoon.to_dict
to_dict(self) ==
    LET d == Entity_to_dict(self)
    IN  [d EXCEPT !.pages = [i \in 1..Len(self.pages) |->
                                Entity_to_dict(self.pages[i])]]

\* Webtoon.from_dict: the entity it returns, and the mapping object as the
\* call leaves it (a_dict.pop removes the "pages" key from the caller's dict)
from_dict_Reversed(d) ==
    LET popped == Get(d, "pages", <<>>)
        n      == Len(popped)
        rest   == Without(d, "pages")
        pages  == [i \in 1..n |-> Entity_from_dict("Page", popped[n + 1 - i])]
    IN  [entity |-> Construct("Webtoon",
                      [k \in DOMAIN rest \cup {"pages"} |->
                          IF k = "pages" THEN pages ELSE rest[k]]),
         a_dict |-> rest]

from_dict(d) ==
    LET popped == Get(d, "pages", <<>>)
        rest   == Without(d, "pages")
        pages  == [i \in 1..Len(popped) |-> Entity_from_dict("Page", popped[i])]
    IN  [entity |-> Construct("Webtoon",
                      [k \in DOMAIN rest \cup {"pages"} |->
                          IF k = "pages" THEN pages ELSE rest[k]]),
         a_dict |-> rest]

-----------------------------------------------------------------------------
(* create_slugline: routes.py 121-123 *)

\* str.lower() on the characters the model's titles use
LowerChar(c) ==
    CASE c = "A" -> "a" [] c = "C" -> "c" [] c = "M" -> "m"
      [] c = "T" -> "t" [] c = "W" -> "w" [] OTHER -> c

lower(s) == [i \in 1..Len(s) |-> LowerChar(s[i])]

\* str.replace(old, new) for a one-character old
RECURSIVE replace(_, _, _)
replace(s, old, new) ==
    IF s = <<>> THEN <<>>
    ELSE (IF Head(s) = old THEN new ELSE <<Head(s)>>) \o replace(Tail(s), old, new)

create_slugline_KeepsBang(title) ==
    replace(replace(replace(lower(title), " ", <<"-">>), "'", <<>>), "?", <<>>)

create_slugline(title) ==
    replace(replace(replace(replace(lower(title), " ", <<"-">>),
                            "'", <<>>), "?", <<>>), "!", <<>>)

-----------------------------------------------------------------------------
(* Identifiers *)

IdsOfPages(pages) == {pages[i]._id : i \in 1..Len(pages)}

IdsOf(e) == {e._id} \cup IdsOfPages(e.pages)

\* every identifier a stored document or a live coroutine holds
UsedIds(coll, ts) ==
    UNION {IdsOf(coll[i]) : i \in 1..Len(coll)}
    \cup UNION {IdsOf(ts[t].webtoon) : t \in {u \in DOMAIN ts : ts[u].pc = "adding"}}

\* str(uuid4()): an identifier no live object holds. Identifiers of discarded
\* objects are never observed again, so the least free one stands for it.
uuid4(used) ==
    CHOOSE i \in 1..(Cardinality(used) + 1) :
        i \notin used /\ \A j \in 1..(i - 1) : j \in used

\* n successive uuid4() calls
RECURSIVE NewIds(_, _)
NewIds(used, n) ==
    IF n = 0 THEN <<>>
    ELSE LET id == uuid4(used) IN <<id>> \o NewIds(used \cup {id}, n - 1)

-----------------------------------------------------------------------------
(* WebtoonsHandler.publish_webtoon, lines 97-106: from the parsed form to   *)
(* the validated Webtoon                                                    *)

\* range(1, 6)
NumFields == 5

\* f"page{count}"
PageKey == <<"page1", "page2", "page3", "page4", "page5">>

\* [url for url in [data.get(f"page{count}") for count in range(1, 6)] if url != ""]
FormPages(data) ==
    SelectSeq([count \in 1..NumFields |-> Get(data, PageKey[count], NoneStr)],
              LAMBDA url : url # "")

\* the Page list of line 104-105; enumerate counts from 0, sequences from 1
BuildPages_FromZero(webtoon_id, ids, pages) ==
    [i \in 1..Len(pages) |-> Page(ids[i], webtoon_id, i - 1, pages[i])]

BuildPages(webtoon_id, ids, pages) ==
    [i \in 1..Len(pages) |-> Page(ids[i], webtoon_id, (i - 1) + 1, pages[i])]

BuildWebtoon(data, used) ==
    LET title      == Get(data, "title", <<>>)
        author     == Get(data, "author", "")
        pages      == FormPages(data)
        slugline   == create_slugline(title)
        ids        == NewIds(used, 1 + Len(pages))
        webtoon_id == ids[1]
    IN  Webtoon(webtoon_id, title, slugline, author,
                BuildPages(webtoon_id, Tail(ids), pages))

validate_webtoon_TitleOnly(webtoon) ==
    IF webtoon.title = <<>> THEN <<"Title is required">> ELSE <<>>

validate_webtoon(webtoon) ==
    (IF webtoon.title = <<>> THEN <<"Title is required">> ELSE <<>>)
    \o (IF webtoon.author = "" THEN <<"Author is required">> ELSE <<>>)

-----------------------------------------------------------------------------
(* MongoRepository / WebtoonRepository: routes.py 139-179 *)

\* cursor.to_list(length=100)
FindCap == 100

\* insert_one(entity.to_dict()); the store keeps _id unique
add_UpsertBySlugline(coll, entity) ==
    LET doc == to_dict(entity)
    IN  [error |-> None,
         coll |-> IF \E i \in 1..Len(coll) : coll[i].slugline = doc.slugline
                  THEN [i \in 1..Len(coll) |->
                          IF coll[i].slugline = doc.slugline THEN doc ELSE coll[i]]
                  ELSE Append(coll, doc)]

add(coll, entity) ==
    LET doc == to_dict(entity)
    IN  IF \E i \in 1..Len(coll) : coll[i]._id = doc._id
        THEN [error |-> DuplicateKeyError, coll |-> coll]
        ELSE [error |-> None, coll |-> Append(coll, doc)]

\* WebtoonRepository.load; the driver hands out a fresh dict per document,
\* so what from_dict does to its argument does not reach the collection
load(data) == from_dict(data).entity

\* find_all: a cursor object is always truthy, so the to_list branch is the
\* one taken, on an empty collection too
find_all_NoCap(coll) == [i \in 1..Len(coll) |-> load(coll[i])]

find_all(coll) == [i \in 1..Min(Len(coll), FindCap) |-> load(coll[i])]

Matches(doc, criteria) ==
    \A k \in DOMAIN criteria : k \in DOMAIN doc /\ doc[k] = criteria[k]

\* collection.find_one(criteria)
find_one(coll, criteria) ==
    LET hits == {i \in 1..Len(coll) : Matches(coll[i], criteria)}
    IN  IF hits = {} THEN None
        ELSE coll[CHOOSE i \in hits : \A j \in hits : i <= j]

find_by_First(coll, criteria) ==
    IF Len(coll) > 0 THEN load(coll[1]) ELSE None

find_by(coll, criteria) ==
    LET result == find_one(coll, criteria)
    IN  IF result # None THEN load(result) ELSE None

-----------------------------------------------------------------------------
(* Presenters: routes.py 58-73 *)

present_webtoons_list(webtoons) ==
    [i \in 1..Len(webtoons) |->
        [slugline |-> webtoons[i].slugline, title |-> webtoons[i].title,
         author |-> webtoons[i].author]]

\* None has no attribute "title"
present_viewable_webtoon(webtoon) ==
    IF "title" \notin DOMAIN webtoon THEN AttributeError
    ELSE [title |-> webtoon.title,
          pages |-> [i \in 1..Len(webtoon.pages) |->
                        [page_number |-> webtoon.pages[i].page_number,
                         url |-> webtoon.pages[i].url]]]

-----------------------------------------------------------------------------
(* Responses *)

Render(template, context) ==
    [kind |-> "render", template |-> template, context |-> context]

HTTPFound(location) == [kind |-> "HTTPFound", location |-> location]

ServerError(exception) == [kind |-> "error", exception |-> exception]

\* WebtoonsHandler.list_webtoons
list_webtoons(coll) ==
    Render("webtoons/list_webtoons.jinja2",
           [webtoons |-> present_webtoons_list(find_all(coll))])

\* WebtoonsHandler.view_webtoon
view_webtoon(coll, id) ==
    LET slugline == id
        pages    == find_by(coll, [slugline |-> slugline])
        view     == present_viewable_webtoon(pages)
    IN  IF view = AttributeError THEN ServerError(AttributeError)
        ELSE Render("webtoons/view_webtoon.jinja2", [webtoon |-> view])

\* WebtoonsHandler.new_webtoon
new_webtoon == Render("webtoons/new_webtoon.jinja2", <<>>)

\* WebtoonsHandler.publish_webtoon run to completion: the response and the
\* collection it leaves
publish_webtoon(coll, ts, data) ==
    LET webtoon == BuildWebtoon(data, UsedIds(coll, ts))
        errors  == validate_webtoon(webtoon)
        added   == add(coll, webtoon)
    IN  IF errors # <<>>
        THEN [response |-> Render("webtoons/new_webtoon.jinja2", [errors |-> errors]),
              coll |-> coll]
        ELSE IF added.error # None
        THEN [response |-> ServerError(added.error), coll |-> coll]
        ELSE [response |-> HTTPFound("/webtoons"), coll |-> added.coll]

-----------------------------------------------------------------------------
(* Inputs *)

MaxDocs == 2          \* documents the sequential server stores

MaxStored == 101      \* documents stored when the fetch cap is exercised

NumTasks == 2         \* concurrent publish_webtoon coroutines

MaxEntityPages == 5   \* pages of a Webtoon under (de)serialisation

MaxLoads == 2         \* from_dict calls on one mapping object

MaxTitleLen == 3      \* characters of a title given to create_slugline

MyComic == <<"M", "y", " ", "C", "o", "m", "i", "c">>

MyComicBang == <<"m", "y", "-", "c", "o", "m", "i", "c", "!">>

WhosThere == <<"W", "h", "o", "'", "s", " ", "T", "h", "e", "r", "e", "?">>

Url == <<"http://x/1.png", "http://x/2.png", "http://x/3.png",
         "http://x/4.png", "http://x/5.png">>

NoFields == [k \in {} |-> ""]

\* the page fields of a form: those in urls carry their URL, those in blanks
\* are submitted as "", the others are not in the form
PagePart(urls, blanks) ==
    [key \in {PageKey[n] : n \in urls \cup blanks} |->
        LET n == CHOOSE m \in 1..NumFields : PageKey[m] = key
        IN  IF n \in urls THEN Url[n] ELSE ""]

\* which fields carry a URL: none, one, some with gaps, all of them
UrlSets == {{}, {1}, {2}, {5}, {1, 3}, {2, 4, 5}, {1, 2, 3, 4}, 1..NumFields}

PageParts ==
    {PagePart(urls, {}) : urls \in UrlSets}
    \cup {PagePart(urls, (1..NumFields) \ urls) : urls \in UrlSets}

TitleParts == {NoFields} \cup {"title" :> t : t \in {<<>>, MyComic, MyComicBang, WhosThere}}

AuthorParts == {NoFields} \cup {"author" :> a : a \in {"", "Jane"}}

SpecExample == ("title" :> MyComic) @@ ("author" :> "Jane") @@ PagePart({1, 3}, {})

BrowserExample == ("title" :> MyComic) @@ ("author" :> "Jane") @@ PagePart({2}, {1, 3, 4, 5})

\* request.post(): every page pattern under a valid title and author, and
\* every title/author combination under one page pattern
Forms ==
    {("title" :> MyComic) @@ ("author" :> "Jane") @@ p : p \in PageParts}
    \cup {t @@ a @@ PagePart({2}, {1, 3, 4, 5}) : t \in TitleParts, a \in AuthorParts}

CapForms == {BrowserExample, ("title" :> MyComic) @@ PagePart({2}, {1, 3, 4, 5})}

RaceForms ==
    {SpecExample, BrowserExample,
     ("title" :> MyComicBang) @@ ("author" :> "Jane") @@ PagePart({1}, {}),
     ("author" :> "Jane") @@ PagePart({1, 3}, {})}

\* request.match_info.get("id")
ViewSlugs == {create_slugline(MyComic), create_slugline(WhosThere), <<"z">>}

SlugChars == {"A", "a", " ", "'", "?", "!", "-"}

SlugTitles == UNION {[1..n -> SlugChars] : n \in 0..MaxTitleLen}

SamplePages ==
    {Page(10, 1, 1, "http://x/1.png"), Page(11, 2, 2, ""), Page(10, 1, 2, NoneStr)}

SampleWebtoons ==
    {Webtoon(1, title, <<"a">>, "Jane", pages) :
        title \in {<<>>, <<"A">>},
        pages \in UNION {[1..n -> SamplePages] : n \in 0..MaxEntityPages}}

-----------------------------------------------------------------------------
(* The sequential server: one request handled to completion at a time *)

NoTasks == [t \in {} |-> None]

ServerInit ==
    /\ collection = <<>>
    /\ submitted = <<>>
    /\ request = [op |-> "none"]
    /\ response = None

NoRace == tasks = NoTasks

NoEntity == w = None /\ a_dict = None /\ loaded = <<>>

NoSlug == title_in = <<>> /\ slug_out = <<>>

others == <<tasks, w, a_dict, loaded, title_in, slug_out>>

Init == ServerInit /\ NoRace /\ NoEntity /\ NoSlug

\* POST /webtoons/new
Publish(data, limit) ==
    /\ Len(collection) < limit
    /\ LET done == publish_webtoon(collection, tasks, data)
       IN  /\ collection' = done.coll
           /\ submitted' = IF done.response.kind = "HTTPFound"
                           THEN Append(submitted, data) ELSE submitted
           /\ response' = done.response
    /\ request' = [op |-> "publish", data |-> data]
    /\ UNCHANGED others

PublishWebtoon == \E data \in Forms : Publish(data, MaxDocs)

\* GET /webtoons/{id}
ViewWebtoon ==
    \E id \in ViewSlugs :
        /\ response' = view_webtoon(collection, id)
        /\ request' = [op |-> "view", id |-> id]
        /\ UNCHANGED <<collection, submitted>>
        /\ UNCHANGED others

\* GET /webtoons
ListWebtoons ==
    /\ response' = list_webtoons(collection)
    /\ request' = [op |-> "list"]
    /\ UNCHANGED <<collection, submitted>>
    /\ UNCHANGED others

\* GET /webtoons/new
NewWebtoon ==
    /\ response' = new_webtoon
    /\ request' = [op |-> "new"]
    /\ UNCHANGED <<collection, submitted>>
    /\ UNCHANGED others

Next == PublishWebtoon \/ ViewWebtoon \/ ListWebtoons \/ NewWebtoon

Spec == Init /\ [][Next]_vars

-----------------------------------------------------------------------------
(* The fetch cap: the same server filled past cursor.to_list(length=100) *)

CapPublish == \E data \in CapForms : Publish(data, MaxStored)

NextCap == CapPublish \/ ListWebtoons

SpecCap == Init /\ [][NextCap]_vars

-----------------------------------------------------------------------------
(* Concurrent publish_webtoon coroutines on one event loop: each runs from  *)
(* one await to the next without interruption                               *)

InitRace ==
    /\ ServerInit /\ NoEntity /\ NoSlug
    /\ tasks = [t \in 1..NumTasks |->
                  [pc |-> "start", data |-> NoFields, webtoon |-> None,
                   raised |-> None, response |-> None]]

RaceFrame == UNCHANGED <<request, response, w, a_dict, loaded, title_in, slug_out>>

\* data = await request.post()
Post(t) ==
    /\ tasks[t].pc = "start"
    /\ \E data \in RaceForms :
          tasks' = [tasks EXCEPT ![t].pc = "parsed", ![t].data = data]
    /\ UNCHANGED <<collection, submitted>>
    /\ RaceFrame

\* lines 97-109, up to the await of webtoon_repository.add
Build(t) ==
    /\ tasks[t].pc = "parsed"
    /\ LET webtoon == BuildWebtoon(tasks[t].data, UsedIds(collection, tasks))
           errors  == validate_webtoon(webtoon)
       IN  tasks' = IF errors # <<>>
                    THEN [tasks EXCEPT ![t].pc = "done",
                            ![t].response = Render("webtoons/new_webtoon.jinja2",
                                                   [errors |-> errors])]
                    ELSE [tasks EXCEPT ![t].pc = "adding", ![t].webtoon = webtoon]
    /\ UNCHANGED <<collection, submitted>>
    /\ RaceFrame

\* the store executes insert_one
Insert(t) ==
    /\ tasks[t].pc = "adding"
    /\ LET added == add(collection, tasks[t].webtoon)
       IN  /\ collection' = added.coll
           /\ submitted' = IF added.error = None
                           THEN Append(submitted, tasks[t].data) ELSE submitted
           /\ tasks' = [tasks EXCEPT ![t].pc = "inserted", ![t].raised = added.error]
    /\ RaceFrame

\* the coroutine resumes after the await: line 110, or the driver's exception
Resume(t) ==
    /\ tasks[t].pc = "inserted"
    /\ tasks' = [tasks EXCEPT ![t].pc = "done",
                    ![t].response = IF tasks[t].raised # None
                                    THEN ServerError(tasks[t].raised)
                                    ELSE HTTPFound("/webtoons")]
    /\ UNCHANGED <<collection, submitted>>
    /\ RaceFrame

NextRace == \E t \in 1..NumTasks : Post(t) \/ Build(t) \/ Insert(t) \/ Resume(t)

SpecRace == InitRace /\ [][NextRace]_vars

-----------------------------------------------------------------------------
(* Entity (de)serialisation on its own *)

InitEntity ==
    /\ ServerInit /\ NoRace /\ NoSlug
    /\ w \in SampleWebtoons
    /\ a_dict = None
    /\ loaded = <<>>

EntityFrame == UNCHANGED <<collection, submitted, request, response, tasks, title_in, slug_out>>

\* a_dict = w.to_dict()
ToDict ==
    /\ a_dict = None
    /\ a_dict' = to_dict(w)
    /\ UNCHANGED <<w, loaded>>
    /\ EntityFrame

\* Webtoon.from_dict(a_dict)
FromDict ==
    /\ a_dict # None
    /\ Len(loaded) < MaxLoads
    /\ LET got == from_dict(a_dict)
       IN  /\ loaded' = Append(loaded, got.entity)
           /\ a_dict' = got.a_dict
    /\ UNCHANGED w
    /\ EntityFrame

NextEntity == ToDict \/ FromDict

SpecEntity == InitEntity /\ [][NextEntity]_vars

-----------------------------------------------------------------------------
(* create_slugline on its own *)

InitSlug ==
    /\ ServerInit /\ NoRace /\ NoEntity
    /\ title_in \in SlugTitles
    /\ slug_out = <<>>

Slugify ==
    /\ slug_out = <<>>
    /\ slug_out' = <<create_slugline(title_in)>>
    /\ UNCHANGED <<collection, submitted, request, response, tasks, w, a_dict, loaded, title_in>>

NextSlug == Slugify

SpecSlug == InitSlug /\ [][NextSlug]_vars

-----------------------------------------------------------------------------
(* Properties *)

\* a submission with a non-empty title and a non-empty author
ValidForm(data) == Get(data, "title", <<>>) # <<>> /\ Get(data, "author", "") # ""

\* the URLs of the page fields that carry one, in field order
UrlsCarried(data) ==
    SelectSeq([n \in 1..5 |-> Get(data, PageKey[n], "")], LAMBDA url : url # "")

\* C1: every publish_webtoon submission with a non-empty title and author
\* adds exactly one document; its pages are the fields that carry a
\* non-empty URL (fields sent empty or left out of the form do not count),
\* the k-th such URL stored as the page with page_number k.
C1_PublishStoresCarriedUrls ==
    [][(request'.op = "publish" /\ ValidForm(request'.data)) =>
        /\ Len(collection') = Len(collection) + 1
        /\ SubSeq(collection', 1, Len(collection)) = collection
        /\ LET doc  == collection'[Len(collection')]
               urls == UrlsCarried(request'.data)
           IN  /\ Len(doc.pages) = Len(urls)
               /\ \A k \in 1..Len(urls) :
                     /\ doc.pages[k].url = urls[k]
                     /\ doc.pages[k].page_number = k]_vars

\* C2: a submission whose title or author is empty or missing is rejected:
\* the collection is left exactly as it was and the response is the creation
\* form rendered again with a non-empty error list, not a redirect.
C2_InvalidSubmissionRejected ==
    [][(request'.op = "publish" /\ ~ValidForm(request'.data)) =>
        /\ collection' = collection
        /\ response'.kind = "render"
        /\ response'.template = "webtoons/new_webtoon.jinja2"
        /\ response'.context.errors # <<>>]_vars

C2_Witness ==
    /\ request.op = "publish"
    /\ "author" \notin DOMAIN request.data
    /\ Get(request.data, "title", <<>>) = MyComic
    /\ Len(collection) = 1
    /\ response.kind = "render"
    /\ response.context.errors = <<"Author is required">>

\* C3: for any Webtoon w with 0 to 5 pages, Webtoon.from_dict(w.to_dict())
\* equals w, field by field and page by page in order.
C3_RoundTrip == Len(loaded) >= 1 => loaded[1] = w

C3_Witness ==
    /\ Len(loaded) >= 1
    /\ Len(w.pages) = 5
    /\ w.pages[1] # w.pages[2]
    /\ loaded[1] = w

\* C4: once a submission has been stored and no other stored webtoon has its
\* slugline, view_webtoon with that slugline renders its title and its pages
\* as (page_number, url) pairs, the urls being the URLs that were submitted.
C4_ViewShowsSubmittedUrls ==
    \A i \in 1..Len(collection) :
        ( /\ request.op = "view"
          /\ request.id = create_slugline(submitted[i].title)
          /\ \A j \in 1..Len(collection) :
                j # i => collection[j].slugline # collection[i].slugline )
        => /\ response.kind = "render"
           /\ response.context.webtoon.title = submitted[i].title
           /\ LET urls == UrlsCarried(submitted[i])
              IN  response.context.webtoon.pages =
                      [k \in 1..Len(urls) |-> [page_number |-> k, url |-> urls[k]]]

\* the slugline read off the title one character at a time
RECURSIVE SlugByChar(_)
SlugByChar(s) ==
    IF s = <<>> THEN <<>>
    ELSE LET c == Head(s)
         IN  (IF c \in {"'", "?", "!"} THEN <<>>
              ELSE IF c = " " THEN <<"-">>
              ELSE <<LowerChar(c)>>) \o SlugByChar(Tail(s))

\* C5: create_slugline(title) is the title lowercased with every space turned
\* into a hyphen, every apostrophe, question mark and exclamation mark
\* removed and every other character left in place; "Who's There?" gives
\* "whos-there" and "My Comic" gives "my-comic".
C5_SluglineByCharacter ==
    /\ slug_out # <<>> => slug_out[1] = SlugByChar(title_in)
    /\ slug_out # <<>> =>
          create_slugline(WhosThere) = <<"w", "h", "o", "s", "-", "t", "h", "e", "r", "e">>
    /\ slug_out # <<>> =>
          create_slugline(MyComic) = <<"m", "y", "-", "c", "o", "m", "i", "c">>

C5_Witness ==
    /\ title_in = <<"A", " ", "!">>
    /\ slug_out = << <<"a", "-">> >>

\* C6: find_all does not fail on any collection size: list_webtoons shows
\* min(n, 100) webtoons of a collection of n documents, the first ones in
\* storage order, and none of an empty collection.
C6_FindAllCapped ==
    request.op = "list" =>
        /\ response.kind = "render"
        /\ Len(response.context.webtoons) = Min(Len(collection), 100)
        /\ \A i \in 1..Len(response.context.webtoons) :
              /\ response.context.webtoons[i].slugline = collection[i].slugline
              /\ response.context.webtoons[i].title = collection[i].title
              /\ response.context.webtoons[i].author = collection[i].author
        /\ Len(find_all(collection)) = Min(Len(collection), 100)

C6_Witness ==
    /\ request.op = "list"
    /\ Len(collection) = 101
    /\ Len(response.context.webtoons) = 100

\* C7: view_webtoon with a slug no stored webtoon has: find_by returns None,
\* the handler fails with an unexpected error (no detail page, no not-found
\* response), and the collection is unchanged.
C7_UnknownSlugFails ==
    [][(/\ request'.op = "view"
        /\ \A i \in 1..Len(collection) : collection[i].slugline # request'.id) =>
        /\ find_by(collection, [slugline |-> request'.id]) = None
        /\ response'.kind = "error"
        /\ response'.exception = AttributeError
        /\ collection' = collection]_vars

C7_Witness ==
    /\ request.op = "view"
    /\ request.id = <<"z">>
    /\ Len(collection) = 2
    /\ response.kind = "error"

\* C8: every stored webtoon has at most 5 pages, each page's webtoon_id is
\* the document's _id, and the page_numbers in stored order are 1, 2, ..., n.
C8_PagesWellFormed ==
    \A i \in 1..Len(collection) :
        LET doc == collection[i]
        IN  /\ Len(doc.pages) <= 5
            /\ \A k \in 1..Len(doc.pages) :
                  /\ doc.pages[k].webtoon_id = doc._id
                  /\ doc.pages[k].page_number = k

C8_Witness ==
    /\ Len(collection) = 2
    /\ Len(collection[1].pages) = 3
    /\ Len(collection[2].pages) = 5
    /\ collection[2].pages[5].page_number = 5
    /\ collection[2].pages[5].webtoon_id = collection[2]._id

\* C9: two concurrent publish_webtoon requests with the same valid title
\* both end in a redirect, whatever the interleaving; each one's document is
\* in the collection exactly as built, the two have the same slugline and
\* different _id values, and no page _id of one is an _id in the other.
C9_ConcurrentPublishesBothStored ==
    \A t \in DOMAIN tasks : \A u \in DOMAIN tasks \ {t} :
        ( /\ tasks[t].pc = "done" /\ tasks[u].pc = "done"
          /\ ValidForm(tasks[t].data) /\ ValidForm(tasks[u].data)
          /\ tasks[t].data.title = tasks[u].data.title )
        => /\ tasks[t].response.kind = "HTTPFound"
           /\ tasks[u].response.kind = "HTTPFound"
           /\ \E i \in 1..Len(collection) : \E j \in 1..Len(collection) :
                 /\ i # j
                 /\ collection[i] = to_dict(tasks[t].webtoon)
                 /\ collection[j] = to_dict(tasks[u].webtoon)
                 /\ collection[i].slugline = collection[j].slugline
                 /\ collection[i]._id # collection[j]._id
                 /\ IdsOfPages(collection[i].pages) \cap IdsOf(collection[j]) = {}
                 /\ \A k \in 1..Len(collection) :
                       collection[k]._id = collection[i]._id => k = i

\* the request that built its webtoon first stored it second
C9_Witness ==
    /\ tasks[1].pc = "done" /\ tasks[2].pc = "done"
    /\ tasks[1].data = SpecExample /\ tasks[2].data = BrowserExample
    /\ tasks[1].response.kind = "HTTPFound"
    /\ tasks[2].response.kind = "HTTPFound"
    /\ tasks[1].webtoon._id < tasks[2].webtoon._id
    /\ collection[1] = to_dict(tasks[2].webtoon)
    /\ collection[2] = to_dict(tasks[1].webtoon)

\* C10: Webtoon.from_dict leaves the mapping passed to it unchanged, so a
\* second call on the same mapping (one with a non-empty pages list) returns
\* a Webtoon equal to the first, with the same pages.
C10_FromDictKeepsMapping ==
    (Len(w.pages) > 0 /\ Len(loaded) >= 1) =>
        /\ a_dict = to_dict(w)
        /\ Len(loaded) >= 2 => loaded[2] = loaded[1]

====
